---- MODULE Spec2Model ----
(***************************************************************************)
(* pvgmsh: the two adapters frontal_delaunay_2d and delaunay_3d of         *)
(* src/src/pvgmsh/__init__.py, as a state machine over the meshing        *)
(* engine's process-global session.  One action per statement that calls  *)
(* the engine (or may raise); the engine itself is external and is kept   *)
(* as the log of the geometry calls it accepted, its options and the mesh *)
(* it generated.                                                           *)
(***************************************************************************)
EXTENDS Integers, Sequences, FiniteSets

VARIABLES
    pc,           \* position in the running adapter call ("idle" between calls)
    fn,           \* "2d" / "3d": the adapter being run ("" before the first call)
    edge_source,  \* the input: [points, lines, faces, bounds]
    target_size,  \* the target_size argument (None when not supplied)
    i,            \* loop index of the running for loop
    surface_loop, \* delaunay_3d's local list surface_loop
    engine,       \* the engine's process-global session
    trace,        \* engine calls issued by the running adapter call, in order
    mesh,         \* the local variable mesh (<<>> while unset)
    result,       \* <<>> until the call returns, then <<returned value>>
    error,        \* "" or the exception the call raised
    entry,        \* the engine session as it was when the running call began
    extracted,    \* <<>> or <<what extract_to_meshio returned to this call>>
    genSession,   \* <<>> or <<the session this call's generate request saw>>
    ref           \* <<>> or <<one remembered call that returned>>

vars == <<pc, fn, edge_source, target_size, i, surface_loop, engine, trace,
          mesh, result, error, entry, extracted, genSession, ref>>

----------------------------------------------------------------------------
(* Program constants                                                       *)

FRONTAL_DELAUNAY_2D == 6
DELAUNAY_3D == 1

\* target_size = None (sizes that are supplied are positive).
None == 0

----------------------------------------------------------------------------
(* Bounds of the explored inputs                                           *)

MaxPoints == 3   \* points of an input
MaxPoly == 3     \* point indices in the first polyline cell
MaxFaces == 2    \* quad faces of an input
MaxSize == 2     \* supplied target sizes are 1..MaxSize
MaxBlocks == 2   \* cell blocks of an engine output
MaxCells == 2    \* cells per cell block

----------------------------------------------------------------------------
(* Inputs: pyvista.PolyData as the adapters read it                        *)

Max(a, b) == IF a >= b THEN a ELSE b
Min(a, b) == IF a <= b THEN a ELSE b
Abs(a) == IF a >= 0 THEN a ELSE -a

\* Coordinates of the k-th input point (k = 0, 1, ...): a staircase of
\* distinct points.
Coord(k) == <<2 * (k % 2), 3 * ((k \div 2) % 2), k \div 4>>

PointSeq(n) == [k \in 1..n |-> Coord(k - 1)]

RECURSIVE AxisMin(_, _, _)
AxisMin(points, axis, n) ==
    IF n = 1 THEN points[1][axis]
    ELSE Min(points[n][axis], AxisMin(points, axis, n - 1))

RECURSIVE AxisMax(_, _, _)
AxisMax(points, axis, n) ==
    IF n = 1 THEN points[1][axis]
    ELSE Max(points[n][axis], AxisMax(points, axis, n - 1))

\* edge_source.bounds: (xmin, xmax, ymin, ymax, zmin, zmax), 0-based in the
\* code and 1-based here; an empty point set has the uninitialised bounds
\* (1, -1, 1, -1, 1, -1).
Bounds(points) ==
    IF Len(points) = 0 THEN <<1, -1, 1, -1, 1, -1>>
    ELSE LET n == Len(points)
         IN <<AxisMin(points, 1, n), AxisMax(points, 1, n),
              AxisMin(points, 2, n), AxisMax(points, 2, n),
              AxisMin(points, 3, n), AxisMax(points, 3, n)>>

\* A polyline of n point indices starting at s with stride d.
Walk(n, s, d) == [k \in 1..n |-> (s + (k - 1) * d) % MaxPoints]

\* edge_source.lines: the flat cell array [n, p1, ..., pn, n', p1', ...];
\* empty when the input has no line cell.
LineArrays ==
    {<<>>} \cup
    { <<n>> \o Walk(n, s, d) \o extra :
        n \in 1..MaxPoly, s \in 0..1, d \in 1..2,
        extra \in {<<>>, <<2, 0, 1>>} }

\* edge_source.regular_faces: quads of four point indices.
Quad(s) == [k \in 1..4 |-> (s + k - 1) % MaxPoints]

RECURSIVE FaceSeqs(_)
FaceSeqs(n) ==
    IF n = 0 THEN {<<>>}
    ELSE FaceSeqs(n - 1) \cup
         { Append(f, Quad(s)) : f \in {g \in FaceSeqs(n - 1) : Len(g) = n - 1},
                                s \in 0..1 }

Source(points, lines, faces) ==
    [points |-> points, lines |-> lines, faces |-> faces,
     bounds |-> Bounds(points)]

Inputs2D == { Source(PointSeq(n), l, <<>>) : n \in 0..MaxPoints, l \in LineArrays }
Inputs3D == { Source(PointSeq(n), <<>>, f) : n \in 0..MaxPoints, f \in FaceSeqs(MaxFaces) }
NoSource == Source(<<>>, <<>>, <<>>)

Sizes == 1..MaxSize

----------------------------------------------------------------------------
(* Engine outputs: what extract_to_meshio returns                          *)

CellTypes == {"vertex", "line", "triangle", "quad", "tetra"}

\* A cell block of len cells whose first cell has global number first.
Block(type, first, len) ==
    [type |-> type, data |-> [c \in 1..len |-> first + c - 1]]

RECURSIVE CellCount(_)
CellCount(cells) ==
    IF cells = <<>> THEN 0
    ELSE Len(cells[Len(cells)].data) + CellCount(SubSeq(cells, 1, Len(cells) - 1))

RECURSIVE BlockSeqs(_)
BlockSeqs(n) ==
    IF n = 0 THEN {<<>>}
    ELSE BlockSeqs(n - 1) \cup
         { Append(b, Block(t, CellCount(b) + 1, len)) :
             b \in {c \in BlockSeqs(n - 1) : Len(c) = n - 1},
             t \in CellTypes, len \in 1..MaxCells }

MeshioMesh(points, cells, fdata) ==
    [points |-> points, cells |-> cells, fdata |-> fdata]

\* Every engine output within the bounds.
AllOutputs ==
    { MeshioMesh(p, c, d) : p \in {0, 4}, c \in BlockSeqs(MaxBlocks),
                            d \in BOOLEAN }

\* The outputs the adapter calls are explored with: four points, at most
\* one cell block, auxiliary data attached.
EngineOutputs ==
    { o \in AllOutputs : Len(o.cells) <= 1 /\ o.points = 4 /\ o.fdata }

----------------------------------------------------------------------------
(* The engine: a process-global session                                    *)

EmptyEngine ==
    [initialized |-> FALSE, options |-> {}, model |-> <<>>, mesh |-> <<>>]

\* The engine's own defaults of the two options the adapters set.
DefaultOptions == {<<"Mesh.Algorithm", 6>>, <<"Mesh.Algorithm3D", 1>>}

\* One engine call: its entry point, option name, integer arguments and
\* explicit tag (-1 when the call takes none).
Op(op, name, args, tag) == [op |-> op, name |-> name, args |-> args, tag |-> tag]

Initialize == Op("initialize", "", <<>>, -1)
SetNumber(name, value) == Op("option.set_number", name, <<value>>, -1)
Synchronize == Op("geo.synchronize", "", <<>>, -1)
RemoveAllDuplicates == Op("geo.remove_all_duplicates", "", <<>>, -1)
Generate(dim) == Op("mesh.generate", "", <<dim>>, -1)
Extract == Op("extract_to_meshio", "", <<>>, -1)
Clear == Op("clear", "", <<>>, -1)
Finalize == Op("finalize", "", <<>>, -1)

\* The engine refuses an explicit tag that an entity of the same kind in
\* the session already has.  (Other engine failures, such as a geometry it
\* cannot mesh, are not modelled: the errors below are the ones the
\* adapters' own statements decide.)
Raises(e, c) ==
    /\ c.tag >= 0
    /\ \E k \in 1..Len(e.model) : e.model[k].op = c.op /\ e.model[k].tag = c.tag

\* The session after the engine accepted call c.  initialize starts a
\* session with the default options, and on a session that is already
\* initialized changes nothing; clear drops the model and
\* its mesh and keeps the options; finalize drops everything.
Apply(e, c) ==
    CASE c.op = "initialize" ->
           IF e.initialized THEN e
           ELSE [EmptyEngine EXCEPT !.initialized = TRUE, !.options = DefaultOptions]
      [] c.op = "option.set_number" ->
           [e EXCEPT !.options = {o \in @ : o[1] # c.name} \cup {<<c.name, c.args[1]>>}]
      [] c.op = "extract_to_meshio" -> e
      [] c.op = "clear" -> [e EXCEPT !.model = <<>>, !.mesh = <<>>]
      [] c.op = "finalize" -> EmptyEngine
      [] OTHER -> [e EXCEPT !.model = Append(@, c)]

\* What a mesh-generation request sees: the options and the geometry calls
\* accepted so far, the request included.
SessionKey(e, c) == [options |-> e.options, model |-> Append(e.model, c)]

----------------------------------------------------------------------------
(* Engine calls the adapters build from their input                        *)

\* Lines 85-87 and 172-174: point i (0-based) with its mesh-size hint.
AddPoint(points, size, idx) ==
    Op("geo.add_point", "",
       <<points[idx + 1][1], points[idx + 1][2], points[idx + 1][3], size>>,
       idx + 1)

\* AddLine2D reading the polyline from lines[0] on, the count taken for the
\* first point index.
AddLine2DFromCount(lines, idx) ==
    Op("geo.add_line", "", <<lines[idx + 1] + 1, lines[idx + 2] + 1>>, idx + 1)

\* Lines 89-91: the idx-th line of the first polyline cell (0-based idx).
AddLine2D(lines, idx) ==
    Op("geo.add_line", "", <<lines[idx + 2] + 1, lines[idx + 3] + 1>>, idx + 1)

\* Line 93: add_curve_loop(range(1, lines[0]), 1).
CurveLoop2D(lines) ==
    Op("geo.add_curve_loop", "", [k \in 1..(lines[1] - 1) |-> k], 1)

\* Line 94: add_plane_surface([1], 1).
PlaneSurface2D == Op("geo.add_plane_surface", "", <<1>>, 1)

\* Lines 178-181: edge e (0..3) of face idx (0-based).
AddLine3D(faces, idx, e) ==
    Op("geo.add_line", "",
       <<faces[idx + 1][e + 1] + 1, faces[idx + 1][((e + 1) % 4) + 1] + 1>>,
       idx * 4 + e)

\* CurveLoop3D with the line tags counted from 1.
CurveLoop3DOneBased(idx) ==
    Op("geo.add_curve_loop", "",
       <<idx * 4 + 1, idx * 4 + 2, idx * 4 + 3, idx * 4 + 4>>, idx + 1)

\* Line 182.
CurveLoop3D(idx) ==
    Op("geo.add_curve_loop", "",
       <<idx * 4 + 0, idx * 4 + 1, idx * 4 + 2, idx * 4 + 3>>, idx + 1)

\* Line 183.
PlaneSurface3D(idx) == Op("geo.add_plane_surface", "", <<idx + 1>>, idx + 1)

\* Lines 188, 189.
SurfaceLoop3D(sl) == Op("geo.add_surface_loop", "", sl, 1)
Volume3D == Op("geo.add_volume", "", <<1>>, 1)

\* The 2D adapter asking for a 3-dimensional mesh.
Generate2DAs3D == Generate(3)

\* Line 96 and line 192.
Generate2D == Generate(2)
Generate3D == Generate(3)

----------------------------------------------------------------------------
(* Results                                                                 *)

NoneResult == [kind |-> "None", points |-> 0, cells |-> <<>>, fdata |-> FALSE]

\* pv.PolyData.from_regular_faces(points, faces): a new mesh without data.
FromRegularFaces(points, faces) ==
    [kind |-> "PolyData", points |-> points, cells |-> faces, fdata |-> FALSE]

\* ScanTriangle keeping the last triangle block instead of returning at the
\* first.
ScanTriangleLast(m, k) ==
    LET T == {j \in k..Len(m.cells) : m.cells[j].type = "triangle"}
    IN IF T = {} THEN NoneResult
       ELSE FromRegularFaces(m.points,
                             m.cells[CHOOSE x \in T : \A y \in T : x >= y].data)

\* Lines 101-104: the first cell block of type "triangle", else None.
RECURSIVE ScanTriangle(_, _)
ScanTriangle(m, k) ==
    IF k > Len(m.cells) THEN NoneResult
    ELSE IF m.cells[k].type = "triangle"
         THEN FromRegularFaces(m.points, m.cells[k].data)
         ELSE ScanTriangle(m, k + 1)

\* pv.wrap(meshio mesh): the cells of all blocks, in block order, each with
\* its type; the engine's auxiliary data comes along.
RECURSIVE Flatten(_)
Flatten(cells) ==
    IF cells = <<>> THEN <<>>
    ELSE LET b == cells[Len(cells)]
         IN Flatten(SubSeq(cells, 1, Len(cells) - 1)) \o
            [c \in 1..Len(b.data) |-> [type |-> b.type, id |-> b.data[c]]]

Wrap(m) ==
    [kind |-> "UnstructuredGrid", points |-> m.points,
     cells |-> Flatten(m.cells), fdata |-> m.fdata]

\* DropCell removing the surface triangles only.
DropCellTriangles(cell) == cell.type = "triangle"

\* Lines 198-201: the positions (0-based) of the cells to remove.
DropCell(cell) == cell.type # "tetra"

RECURSIVE Ind(_, _)
Ind(cells, k) ==
    IF k > Len(cells) THEN <<>>
    ELSE IF DropCell(cells[k]) THEN <<k - 1>> \o Ind(cells, k + 1)
         ELSE Ind(cells, k + 1)

\* mesh.remove_cells(ind): the cells whose position is not listed, in order.
RECURSIVE RemoveCells(_, _, _)
RemoveCells(cells, ind, k) ==
    IF k > Len(cells) THEN <<>>
    ELSE IF \E j \in 1..Len(ind) : ind[j] = k - 1
         THEN RemoveCells(cells, ind, k + 1)
         ELSE <<cells[k]>> \o RemoveCells(cells, ind, k + 1)

\* Lines 202-203: remove_cells then clear_data.
Cleaned(g) ==
    [g EXCEPT !.cells = RemoveCells(g.cells, Ind(g.cells, 1), 1),
              !.fdata = FALSE]

\* numpy.max(a, axis, out) as line 83 calls it: the second and third
\* extents arrive as axis and out, and a float axis is a TypeError, so
\* the call raises for every input.
NpMax3(a, axis, out) == [raises |-> TRUE, value |-> 0]

----------------------------------------------------------------------------
(* Steps shared by the statements of both adapters                         *)

\* A statement that raises ends the call: nothing after it runs.
RaiseError(exc) ==
    /\ pc' = "raised"
    /\ error' = exc

\* Issue engine call c; the call goes on at next unless the engine raises.
Issue(c, next) ==
    /\ trace' = Append(trace, c)
    /\ IF Raises(engine, c)
       THEN /\ engine' = engine
            /\ RaiseError("Exception")
       ELSE /\ engine' = Apply(engine, c)
            /\ pc' = next
            /\ error' = error

\* A call begins: the locals are fresh, the engine is whatever the last
\* call left.
Begin(f, src, size, first) ==
    /\ pc = "idle"
    /\ pc' = first
    /\ fn' = f
    /\ edge_source' = src
    /\ target_size' = size
    /\ i' = 0
    /\ surface_loop' = <<>>
    /\ trace' = <<>>
    /\ mesh' = <<>>
    /\ result' = <<>>
    /\ error' = ""
    /\ entry' = engine
    /\ extracted' = <<>>
    /\ genSession' = <<>>
    /\ UNCHANGED <<engine, ref>>

\* The call is over (it returned or raised): its locals are gone, the
\* engine session stays as the call left it.
Finish ==
    /\ pc \in {"returned", "raised"}
    /\ pc' = "idle"
    /\ edge_source' = NoSource
    /\ target_size' = None
    /\ i' = 0
    /\ surface_loop' = <<>>
    /\ trace' = <<>>
    /\ mesh' = <<>>
    /\ result' = <<>>
    /\ error' = ""
    /\ extracted' = <<>>
    /\ genSession' = <<>>
    /\ fn' = ""
    /\ entry' = EmptyEngine
    /\ UNCHANGED <<engine, ref>>

\* gmsh.model.mesh.generate(dim): the engine meshes the session's geometry.
\* Which mesh comes out is the engine's business and is left open, but it
\* is a function of the session: a session equal to the one of the
\* remembered call gets the remembered mesh.
MeshGenerate(c, next, outs) ==
    \E o \in outs :
        /\ (ref # <<>> /\ ref[1].session = SessionKey(engine, c))
              => o = ref[1].output
        /\ genSession' = <<SessionKey(engine, c)>>
        /\ trace' = Append(trace, c)
        /\ engine' = [Apply(engine, c) EXCEPT !.mesh = <<o>>]
        /\ pc' = next
        /\ error' = error

----------------------------------------------------------------------------
(* frontal_delaunay_2d, lines 75-104                                       *)

Call2D(srcs) ==
    \E src \in srcs, size \in {None} \cup Sizes :
        Begin("2d", src, size, "L79")

GmshInitialize2D ==
    /\ pc = "L79"
    /\ Issue(Initialize, "L80")
    /\ UNCHANGED <<fn, edge_source, target_size, i, surface_loop, mesh, result,
                   entry, extracted, genSession, ref>>

SetAlgorithm2D ==
    /\ pc = "L80"
    /\ Issue(SetNumber("Mesh.Algorithm", FRONTAL_DELAUNAY_2D), "L82")
    /\ UNCHANGED <<fn, edge_source, target_size, i, surface_loop, mesh, result,
                   entry, extracted, genSession, ref>>

DefaultTargetSize ==
    /\ pc = "L82"
    /\ LET b == edge_source.bounds
           m == NpMax3(Abs(b[2] - b[1]), Abs(b[4] - b[3]), Abs(b[6] - b[5]))
       IN IF target_size # None
          THEN /\ pc' = "L85"
               /\ UNCHANGED <<target_size, error>>
          ELSE IF m.raises
               THEN /\ RaiseError("TypeError")
                    /\ UNCHANGED target_size
               ELSE /\ target_size' = m.value
                    /\ pc' = "L85"
                    /\ UNCHANGED error
    /\ UNCHANGED <<fn, edge_source, i, surface_loop, engine, trace, mesh, result,
                   entry, extracted, genSession, ref>>

AddPoints2D ==
    /\ pc = "L85"
    /\ IF i < Len(edge_source.points)
       THEN /\ Issue(AddPoint(edge_source.points, target_size, i), "L85")
            /\ i' = i + 1
       ELSE /\ pc' = "L89"
            /\ i' = 0
            /\ UNCHANGED <<engine, trace, error>>
    /\ UNCHANGED <<fn, edge_source, target_size, surface_loop, mesh, result,
                   entry, extracted, genSession, ref>>

\* lines[0] on an empty array, or an index past its end, is an IndexError.
AddLines2D ==
    /\ pc = "L89"
    /\ LET lines == edge_source.lines
       IN IF Len(lines) = 0
          THEN /\ RaiseError("IndexError")
               /\ UNCHANGED <<engine, trace, i>>
          ELSE IF i < lines[1] - 1
               THEN IF i + 3 > Len(lines)
                    THEN /\ RaiseError("IndexError")
                         /\ UNCHANGED <<engine, trace, i>>
                    ELSE /\ Issue(AddLine2D(lines, i), "L89")
                         /\ i' = i + 1
               ELSE /\ pc' = "L93"
                    /\ i' = 0
                    /\ UNCHANGED <<engine, trace, error>>
    /\ UNCHANGED <<fn, edge_source, target_size, surface_loop, mesh, result,
                   entry, extracted, genSession, ref>>

AddCurveLoop2D ==
    /\ pc = "L93"
    /\ Issue(CurveLoop2D(edge_source.lines), "L94")
    /\ UNCHANGED <<fn, edge_source, target_size, i, surface_loop, mesh, result,
                   entry, extracted, genSession, ref>>

AddPlaneSurface2D ==
    /\ pc = "L94"
    /\ Issue(PlaneSurface2D, "L95")
    /\ UNCHANGED <<fn, edge_source, target_size, i, surface_loop, mesh, result,
                   entry, extracted, genSession, ref>>

Synchronize2D ==
    /\ pc = "L95"
    /\ Issue(Synchronize, "L96")
    /\ UNCHANGED <<fn, edge_source, target_size, i, surface_loop, mesh, result,
                   entry, extracted, genSession, ref>>

MeshGenerate2D(outs) ==
    /\ pc = "L96"
    /\ MeshGenerate(Generate2D, "L97", outs)
    /\ UNCHANGED <<fn, edge_source, target_size, i, surface_loop, mesh, result,
                   entry, extracted, ref>>

ExtractMesh2D ==
    /\ pc = "L97"
    /\ Issue(Extract, "L98")
    /\ mesh' = engine.mesh
    /\ extracted' = engine.mesh
    /\ UNCHANGED <<fn, edge_source, target_size, i, surface_loop, result,
                   entry, genSession, ref>>

GmshClear2D ==
    /\ pc = "L98"
    /\ Issue(Clear, "L99")
    /\ UNCHANGED <<fn, edge_source, target_size, i, surface_loop, mesh, result,
                   entry, extracted, genSession, ref>>

GmshFinalize2D ==
    /\ pc = "L99"
    /\ Issue(Finalize, "L101")
    /\ UNCHANGED <<fn, edge_source, target_size, i, surface_loop, mesh, result,
                   entry, extracted, genSession, ref>>

Return2D ==
    /\ pc = "L101"
    /\ result' = <<ScanTriangle(mesh[1], 1)>>
    /\ pc' = "returned"
    /\ UNCHANGED <<fn, edge_source, target_size, i, surface_loop, engine, trace,
                   mesh, error, entry, extracted, genSession, ref>>

----------------------------------------------------------------------------
(* delaunay_3d, lines 166-205                                              *)

Call3D(srcs) ==
    \E src \in srcs, size \in Sizes :
        Begin("3d", src, size, "L169")

GmshInitialize3D ==
    /\ pc = "L169"
    /\ Issue(Initialize, "L170")
    /\ UNCHANGED <<fn, edge_source, target_size, i, surface_loop, mesh, result,
                   entry, extracted, genSession, ref>>

SetAlgorithm3D ==
    /\ pc = "L170"
    /\ Issue(SetNumber("Mesh.Algorithm3D", DELAUNAY_3D), "L172")
    /\ UNCHANGED <<fn, edge_source, target_size, i, surface_loop, mesh, result,
                   entry, extracted, genSession, ref>>

AddPoints3D ==
    /\ pc = "L172"
    /\ IF i < Len(edge_source.points)
       THEN /\ Issue(AddPoint(edge_source.points, target_size, i), "L172")
            /\ i' = i + 1
            /\ UNCHANGED surface_loop
       ELSE /\ pc' = "L177"
            /\ i' = 0
            /\ surface_loop' = <<>>
            /\ UNCHANGED <<engine, trace, error>>
    /\ UNCHANGED <<fn, edge_source, target_size, mesh, result,
                   entry, extracted, genSession, ref>>

\* Line 177: the loop over the faces goes on with face i or ends.
ForFaces3D ==
    /\ pc = "L177"
    /\ pc' = IF i < Len(edge_source.faces) THEN "L178" ELSE "L188"
    /\ UNCHANGED <<fn, edge_source, target_size, i, surface_loop, engine, trace,
                   mesh, result, error, entry, extracted, genSession, ref>>

\* Lines 178-181: the four edges of face i, one statement each.
EdgeLabel(e) == <<"L178", "L179", "L180", "L181", "L182">>[e + 1]

AddFaceLine3D ==
    \E e \in 0..3 :
        /\ pc = EdgeLabel(e)
        /\ Issue(AddLine3D(edge_source.faces, i, e), EdgeLabel(e + 1))
        /\ UNCHANGED <<fn, edge_source, target_size, i, surface_loop, mesh, result,
                       entry, extracted, genSession, ref>>

AddCurveLoop3D ==
    /\ pc = "L182"
    /\ Issue(CurveLoop3D(i), "L183")
    /\ UNCHANGED <<fn, edge_source, target_size, i, surface_loop, mesh, result,
                   entry, extracted, genSession, ref>>

AddPlaneSurface3D ==
    /\ pc = "L183"
    /\ Issue(PlaneSurface3D(i), "L184")
    /\ UNCHANGED <<fn, edge_source, target_size, i, surface_loop, mesh, result,
                   entry, extracted, genSession, ref>>

RemoveAllDuplicates3D ==
    /\ pc = "L184"
    /\ Issue(RemoveAllDuplicates, "L185")
    /\ UNCHANGED <<fn, edge_source, target_size, i, surface_loop, mesh, result,
                   entry, extracted, genSession, ref>>

\* Lines 185-186: synchronize, then surface_loop.append(i + 1); the next
\* face follows.
SynchronizeFace3D ==
    /\ pc = "L185"
    /\ Issue(Synchronize, "L177")
    /\ surface_loop' = IF Raises(engine, Synchronize) THEN surface_loop
                       ELSE Append(surface_loop, i + 1)
    /\ i' = IF Raises(engine, Synchronize) THEN i ELSE i + 1
    /\ UNCHANGED <<fn, edge_source, target_size, mesh, result,
                   entry, extracted, genSession, ref>>

AddSurfaceLoop3D ==
    /\ pc = "L188"
    /\ Issue(SurfaceLoop3D(surface_loop), "L189")
    /\ UNCHANGED <<fn, edge_source, target_size, i, surface_loop, mesh, result,
                   entry, extracted, genSession, ref>>

AddVolume3D ==
    /\ pc = "L189"
    /\ Issue(Volume3D, "L191")
    /\ UNCHANGED <<fn, edge_source, target_size, i, surface_loop, mesh, result,
                   entry, extracted, genSession, ref>>

Synchronize3D ==
    /\ pc = "L191"
    /\ Issue(Synchronize, "L192")
    /\ UNCHANGED <<fn, edge_source, target_size, i, surface_loop, mesh, result,
                   entry, extracted, genSession, ref>>

MeshGenerate3D(outs) ==
    /\ pc = "L192"
    /\ MeshGenerate(Generate3D, "L194", outs)
    /\ UNCHANGED <<fn, edge_source, target_size, i, surface_loop, mesh, result,
                   entry, extracted, ref>>

\* Line 194: mesh = pv.wrap(extract_to_meshio()).
ExtractMesh3D ==
    /\ pc = "L194"
    /\ Issue(Extract, "L195")
    /\ mesh' = <<Wrap(engine.mesh[1])>>
    /\ extracted' = engine.mesh
    /\ UNCHANGED <<fn, edge_source, target_size, i, surface_loop, result,
                   entry, genSession, ref>>

GmshClear3D ==
    /\ pc = "L195"
    /\ Issue(Clear, "L196")
    /\ UNCHANGED <<fn, edge_source, target_size, i, surface_loop, mesh, result,
                   entry, extracted, genSession, ref>>

GmshFinalize3D ==
    /\ pc = "L196"
    /\ Issue(Finalize, "L198")
    /\ UNCHANGED <<fn, edge_source, target_size, i, surface_loop, mesh, result,
                   entry, extracted, genSession, ref>>

Return3D ==
    /\ pc = "L198"
    /\ result' = <<Cleaned(mesh[1])>>
    /\ pc' = "returned"
    /\ UNCHANGED <<fn, edge_source, target_size, i, surface_loop, engine, trace,
                   mesh, error, entry, extracted, genSession, ref>>

----------------------------------------------------------------------------
(* Specification: any sequence of adapter calls, one at a time             *)

Init ==
    /\ pc = "idle"
    /\ fn = ""
    /\ edge_source = NoSource
    /\ target_size = None
    /\ i = 0
    /\ surface_loop = <<>>
    /\ engine = EmptyEngine
    /\ trace = <<>>
    /\ mesh = <<>>
    /\ result = <<>>
    /\ error = ""
    /\ entry = EmptyEngine
    /\ extracted = <<>>
    /\ genSession = <<>>
    /\ ref = <<>>

Steps2D ==
    \/ GmshInitialize2D
    \/ SetAlgorithm2D
    \/ DefaultTargetSize
    \/ AddPoints2D
    \/ AddLines2D
    \/ AddCurveLoop2D
    \/ AddPlaneSurface2D
    \/ Synchronize2D
    \/ ExtractMesh2D
    \/ GmshClear2D
    \/ GmshFinalize2D
    \/ Return2D

Steps3D ==
    \/ GmshInitialize3D
    \/ SetAlgorithm3D
    \/ AddPoints3D
    \/ ForFaces3D
    \/ AddFaceLine3D
    \/ AddCurveLoop3D
    \/ AddPlaneSurface3D
    \/ RemoveAllDuplicates3D
    \/ SynchronizeFace3D
    \/ AddSurfaceLoop3D
    \/ AddVolume3D
    \/ Synchronize3D
    \/ ExtractMesh3D
    \/ GmshClear3D
    \/ GmshFinalize3D
    \/ Return3D

Next ==
    \/ Call2D(Inputs2D)
    \/ Call3D(Inputs3D)
    \/ MeshGenerate2D(EngineOutputs)
    \/ MeshGenerate3D(EngineOutputs)
    \/ Steps2D
    \/ Steps3D
    \/ Finish

Spec == Init /\ [][Next]_vars

----------------------------------------------------------------------------
(* The result functions alone, on every engine output within the bounds:   *)
(* the call has finalized the engine and is about to filter and return.    *)

InitFilter ==
    \E o \in AllOutputs, f \in {"2d", "3d"} :
        /\ pc = IF f = "2d" THEN "L101" ELSE "L198"
        /\ fn = f
        /\ edge_source = NoSource
        /\ target_size = 1
        /\ i = 0
        /\ surface_loop = <<>>
        /\ engine = EmptyEngine
        /\ trace = <<>>
        /\ mesh = IF f = "2d" THEN <<o>> ELSE <<Wrap(o)>>
        /\ result = <<>>
        /\ error = ""
        /\ entry = EmptyEngine
        /\ extracted = <<o>>
        /\ genSession = <<>>
        /\ ref = <<>>

NextFilter ==
    \/ Return2D
    \/ Return3D

SpecFilter == InitFilter /\ [][NextFilter]_vars

----------------------------------------------------------------------------
(* Repeated calls with one returned call remembered                        *)

\* result.n_points and result.n_cells (None has neither: 0 and 0).
Counts(r) == <<r.points, Len(r.cells)>>

\* Remember the call that has just returned: its arguments, the session its
\* generate request saw, the mesh the engine answered with, and the counts
\* of what it returned.
SaveRef ==
    /\ pc = "returned"
    /\ ref = <<>>
    /\ ref' = <<[fn |-> fn, src |-> edge_source, size |-> target_size,
                 session |-> genSession[1], output |-> extracted[1],
                 counts |-> Counts(result[1])]>>
    /\ UNCHANGED <<pc, fn, edge_source, target_size, i, surface_loop, engine,
                   trace, mesh, result, error, entry, extracted, genSession>>

IdemInputs2D == { src \in Inputs2D : Len(src.points) <= 1 /\ Len(src.lines) <= 3 }
IdemInputs3D == { src \in Inputs3D : Len(src.points) <= 1 /\ Len(src.faces) <= 1 }
IdemOutputs ==
    { o \in EngineOutputs :
        \A k \in 1..Len(o.cells) : o.cells[k].type \in {"triangle", "tetra"} }

NextIdem ==
    \/ Call2D(IdemInputs2D)
    \/ Call3D(IdemInputs3D)
    \/ MeshGenerate2D(IdemOutputs)
    \/ MeshGenerate3D(IdemOutputs)
    \/ Steps2D
    \/ Steps3D
    \/ Finish
    \/ SaveRef

SpecIdem == Init /\ [][NextIdem]_vars

----------------------------------------------------------------------------
(* Properties                                                              *)

Ended == pc \in {"returned", "raised"}

\* The calls of the running adapter call that went to entry point op.
Calls(op) == SelectSeq(trace, LAMBDA c : c.op = op)

\* The positions in the trace of the calls to the entry points in ops.
Positions(ops) == {k \in 1..Len(trace) : trace[k].op \in ops}

RegistrationOps ==
    {"geo.add_line", "geo.add_curve_loop", "geo.add_plane_surface",
     "geo.add_surface_loop", "geo.add_volume"}

TaggedOps == RegistrationOps \cup {"geo.add_point"}

\* C1: on every exit path of a call, return or raise, the call has
\* initialized the engine exactly once and the engine is cleared and
\* finalized when the call ends.
C1_ReleasedOnEveryExit ==
    Ended => /\ Len(Calls("initialize")) = 1
             /\ engine = EmptyEngine

\* C2: the engine session every call sees at its entry is the empty,
\* uninitialized one, whatever calls ran before.
C2_FreshSessionAtEntry ==
    pc # "idle" => entry = EmptyEngine

\* C3: the 2D adapter returns the mesh of the first cell block of type
\* "triangle", built from that block's connectivity and the output points,
\* and returns None, without raising, when there is no such block.
C3_FirstTriangleBlock ==
    (fn = "2d" /\ pc = "returned") =>
        LET m == extracted[1]
            r == result[1]
            T == {k \in 1..Len(m.cells) : m.cells[k].type = "triangle"}
        IN /\ error = ""
           /\ IF T = {}
              THEN r.kind = "None"
              ELSE LET k == CHOOSE x \in T : \A y \in T : x <= y
                   IN /\ r.kind = "PolyData"
                      /\ r.cells = m.cells[k].data
                      /\ r.points = m.points

C3_Witness ==
    /\ fn = "2d"
    /\ pc = "returned"
    /\ Len(extracted[1].cells) = 2
    /\ extracted[1].cells[1].type = "triangle"
    /\ extracted[1].cells[2].type = "triangle"
    /\ result[1].cells = extracted[1].cells[1].data

\* The numbers of the tetrahedron cells of an engine output, block by block.
RECURSIVE TetraIds(_)
TetraIds(cells) ==
    IF cells = <<>> THEN <<>>
    ELSE (IF Head(cells).type = "tetra" THEN Head(cells).data ELSE <<>>)
         \o TetraIds(Tail(cells))

\* C4: the mesh delaunay_3d returns holds exactly the tetrahedron cells of
\* the engine output, in their order, no cell of another type, and no
\* auxiliary data.
C4_OnlyTetrahedra ==
    (fn = "3d" /\ pc = "returned") =>
        LET r == result[1]
        IN /\ \A k \in 1..Len(r.cells) : r.cells[k].type = "tetra"
           /\ [k \in 1..Len(r.cells) |-> r.cells[k].id] = TetraIds(extracted[1].cells)
           /\ r.points = extracted[1].points
           /\ r.fdata = FALSE

C4_Witness ==
    /\ fn = "3d"
    /\ pc = "returned"
    /\ extracted[1].fdata
    /\ Len(extracted[1].cells) = 2
    /\ extracted[1].cells[1].type = "triangle"
    /\ extracted[1].cells[2].type = "tetra"
    /\ Len(result[1].cells) = Len(extracted[1].cells[2].data)

\* The largest of the three bounding-box extents.
MaxExtent(b) == Max(Abs(b[2] - b[1]), Max(Abs(b[4] - b[3]), Abs(b[6] - b[5])))

\* Every input point was registered with mesh-size hint size.
PointsRegisteredWith(size) ==
    /\ Len(Calls("geo.add_point")) = Len(edge_source.points)
    /\ \A k \in 1..Len(edge_source.points) :
          Calls("geo.add_point")[k].args[4] = size

\* C5: a 2D call without a target size registers every point with the
\* largest bounding-box extent and goes on to mesh generation; a supplied
\* target size is used unchanged for every point.  (Calls that begin on a
\* fresh session and get past the lines array; target_size is still None at
\* the end only when the default was never computed.)
C5_DefaultTargetSize ==
    (fn = "2d" /\ Ended /\ entry = EmptyEngine /\ error # "IndexError") =>
        IF target_size = None
        THEN /\ PointsRegisteredWith(MaxExtent(edge_source.bounds))
             /\ Len(Calls("mesh.generate")) = 1
        ELSE PointsRegisteredWith(target_size)

\* C6: a call with the same adapter, input and target size as a call that
\* returned ends by returning a result with the same vertex count and the
\* same cell count.
C6_Idempotent ==
    (/\ ref # <<>>
     /\ Ended
     /\ fn = ref[1].fn
     /\ edge_source = ref[1].src
     /\ target_size = ref[1].size) =>
        /\ pc = "returned"
        /\ Counts(result[1]) = ref[1].counts

\* C7: in a call that returns, the engine calls come in the order
\* initialize, algorithm selection, points, then lines/loops/surfaces (and
\* surface loop and volume), the final synchronize, one mesh generation of
\* the adapter's dimension, extraction, clear, finalize; the result is
\* filtered and returned only after finalize.
C7_CallOrder ==
    /\ result # <<>> => pc = "returned"
    /\ pc \in {"L101", "L198", "returned"} =>
        LET n == Len(trace)
            P == Positions({"geo.add_point"})
            R == Positions(RegistrationOps)
        IN /\ n >= 7
           /\ trace[1] = Initialize
           /\ trace[2].op = "option.set_number"
           /\ trace[2].name = IF fn = "2d" THEN "Mesh.Algorithm" ELSE "Mesh.Algorithm3D"
           /\ \A p \in P, r \in R : 2 < p /\ p < r
           /\ \A r \in R : r < n - 4
           /\ trace[n - 4] = Synchronize
           /\ trace[n - 3] = Generate(IF fn = "2d" THEN 2 ELSE 3)
           /\ trace[n - 2] = Extract
           /\ trace[n - 1] = Clear
           /\ trace[n] = Finalize
           /\ \A op \in {"initialize", "option.set_number", "mesh.generate",
                         "extract_to_meshio", "clear", "finalize"} :
                 Cardinality(Positions({op})) = 1
           /\ ~engine.initialized

C7_Witness ==
    /\ pc = "returned"
    /\ fn = "3d"
    /\ Len(edge_source.points) = MaxPoints
    /\ Len(edge_source.faces) = MaxFaces
    /\ Len(trace) = 2 + MaxPoints + 8 * MaxFaces + 7

\* C8: for a lines array that starts with a polyline cell of n indices
\* p1..pn, the 2D adapter registers only the lines (pk + 1, pk+1 + 1) with
\* tag k, in order, and a call that returns has registered exactly n - 1 of
\* them, one curve loop <<1, ..., n - 1>> with tag 1 and one plane surface
\* bounded by loop 1; further cells of the array add nothing.
C8_PolylineToLoop ==
    (fn = "2d" /\ Len(edge_source.lines) > 0) =>
        LET lines == edge_source.lines
            n == lines[1]
            L == Calls("geo.add_line")
        IN /\ Len(L) <= n - 1
           /\ \A k \in 1..Len(L) :
                 /\ L[k].args = <<lines[k + 1] + 1, lines[k + 2] + 1>>
                 /\ L[k].tag = k
           /\ pc = "returned" =>
                 /\ Len(L) = n - 1
                 /\ Calls("geo.add_curve_loop")
                      = <<Op("geo.add_curve_loop", "", [k \in 1..(n - 1) |-> k], 1)>>
                 /\ Calls("geo.add_plane_surface")
                      = <<Op("geo.add_plane_surface", "", <<1>>, 1)>>

C8_Witness ==
    /\ fn = "2d"
    /\ pc = "returned"
    /\ edge_source.lines[1] = MaxPoly
    /\ Len(edge_source.lines) > MaxPoly + 1
    /\ Len(Calls("geo.add_line")) = MaxPoly - 1

\* The eight engine calls of face f (1-based) of delaunay_3d's loop.
FaceCalls(f) ==
    LET v == edge_source.faces[f]
        t == 4 * (f - 1)
    IN <<Op("geo.add_line", "", <<v[1] + 1, v[2] + 1>>, t),
         Op("geo.add_line", "", <<v[2] + 1, v[3] + 1>>, t + 1),
         Op("geo.add_line", "", <<v[3] + 1, v[4] + 1>>, t + 2),
         Op("geo.add_line", "", <<v[4] + 1, v[1] + 1>>, t + 3),
         Op("geo.add_curve_loop", "", <<t, t + 1, t + 2, t + 3>>, f),
         Op("geo.add_plane_surface", "", <<f>>, f),
         RemoveAllDuplicates,
         Synchronize>>

\* C9: a 3D call that returns has, after the points and for each face in
\* input order, registered the face's four edges, one curve loop of those
\* four lines and one plane surface of that loop, removed duplicates and
\* synchronized; then one surface loop of the F surface tags in face order
\* and one volume bounded by it, before mesh generation.
C9_FacesToVolume ==
    (fn = "3d" /\ pc = "returned") =>
        LET F == Len(edge_source.faces)
            G == SubSeq(trace, 3 + Len(edge_source.points), Len(trace))
        IN /\ Len(G) = 8 * F + 7
           /\ \A f \in 1..F : SubSeq(G, 8 * (f - 1) + 1, 8 * f) = FaceCalls(f)
           /\ G[8 * F + 1] = Op("geo.add_surface_loop", "", [f \in 1..F |-> f], 1)
           /\ G[8 * F + 2] = Op("geo.add_volume", "", <<1>>, 1)
           /\ G[8 * F + 3] = Synchronize
           /\ G[8 * F + 4] = Generate(3)

C9_Witness ==
    /\ fn = "3d"
    /\ pc = "returned"
    /\ Len(edge_source.faces) = MaxFaces
    /\ edge_source.faces[1] # edge_source.faces[2]
    /\ Len(Calls("geo.add_line")) = 4 * MaxFaces

\* C10: every explicit tag is 1-based: point i has tag i + 1, line
\* endpoints are index + 1, every entity tag is at least 1, and no two
\* entities of a kind registered in one call share a tag.
C10_OneBasedTags ==
    /\ \A k \in 1..Len(Calls("geo.add_point")) : Calls("geo.add_point")[k].tag = k
    /\ \A k \in Positions(TaggedOps) : trace[k].tag >= 1
    /\ \A k \in Positions({"geo.add_line"}) :
          trace[k].args[1] >= 1 /\ trace[k].args[2] >= 1
    /\ \A j, k \in Positions(TaggedOps) :
          (j # k /\ trace[j].op = trace[k].op) => trace[j].tag # trace[k].tag

====
